---- MODULE Spec2Model ----
(***************************************************************************)
(* Model of the SPC suggestion service (src/app): the POST                 *)
(* /api/spc/suggestions handler of main.py, the GeminiService of           *)
(* gemini_service.py (thread pool, JSON extraction, post-processing), the  *)
(* summary of prompts.py and the response models of models.py.             *)
(*                                                                         *)
(* Units.  A float amount of money of the program is an integer number of  *)
(* thousandths of a currency unit (10.00 is 10000) where it is an input    *)
(* (currentCost, estimatedCost); round(x, 2) yields hundredths and         *)
(* round(x, 1) of a percentage yields tenths of a percent.  A confidence   *)
(* is an integer number of hundredths (0.7 is 70).                         *)
(*                                                                         *)
(* Python dicts are records whose DOMAIN is the set of keys present, so    *)
(* d.get(k, default) and the KeyError of d[k] are modelled by key presence.*)
(***************************************************************************)
EXTENDS Integers, Sequences, FiniteSets, TLC

VARIABLES
    inbox,      \* inbox[c]: the request client c has posted, not yet handled
    pc,         \* pc[c]: where the handler coroutine of c's request stands
    queue,      \* work items submitted to the executor, not yet picked up
    running,    \* clients whose provider call occupies a worker thread
    future,     \* future[c]: outcome of the provider call (run_in_executor)
    calls,      \* calls[c]: number of provider invocations made for c
    steps,      \* steps[c]: the pipeline steps the handler has completed
    response,   \* response[c]: the HTTP response sent to c
    connected   \* connected[c]: c's connection to the server is open

vars == <<inbox, pc, queue, running, future, calls, steps, response, connected>>

(***************************************************************************)
(* Bounds of the model.                                                    *)
(***************************************************************************)
NumClients == 6      \* clients (each posts at most one request)
MaxReqItems == 2     \* length of the freely chosen request item lists
MaxEntries == 2      \* entries of the model's "items" array
MaxSugg == 4         \* entries of one model "suggestions" array
MaxTextLen == 3      \* tokens of the exhaustively enumerated provider texts
MaxDroppers == 1     \* clients that may close their connection mid-request

(***************************************************************************)
(* Program constants.                                                      *)
(***************************************************************************)
MaxItemsPerRequest == 50    \* main.py: len(request.items) > 50
max_workers == 5            \* ThreadPoolExecutor(max_workers=5)
TopSuggestions == 3         \* [:3]
DefaultConfidence == 70     \* sugg.get('confidence', 0.7)
PriorityThreshold == 5000   \* max_savings > 50, in hundredths
TopPriority == 5            \* priority_items[:5]

Clients == 1..NumClients

Has(d, k) == k \in DOMAIN d
Get(d, k, default) == IF k \in DOMAIN d THEN d[k] ELSE default
NoFields == <<>>

Min(S) == CHOOSE x \in S : \A y \in S : x <= y
Max(S) == CHOOSE x \in S : \A y \in S : x >= y

SeqsUpTo(S, n) == UNION { [1..k -> S] : k \in 0..n }

(***************************************************************************)
(* Provider text.  A text is a sequence of tokens; every token stands for  *)
(* a run of characters:                                                    *)
(*   lbrace  {          rbrace  }          fence   ```                     *)
(*   jsontag json       ws      one whitespace character                   *)
(*   word    prose without quote, brace, backtick or whitespace            *)
(*   quote   "          number  3          array   []                      *)
(*   key     "k":       (a JSON object key with its colon)                 *)
(*   items   "items": [e1, ..., en]  the member holding the model's items  *)
(*           array, whose content is the token's field v; each entry is    *)
(*           serialised as a JSON object, so the token holds braces        *)
(*           exactly when v is not empty, and it ends with "]".            *)
(*   deep    a run of "[" longer than the interpreter's recursion limit    *)
(***************************************************************************)
Tok(kind) == [t |-> kind, v |-> <<>>]
ItemsTok(payload) == [t |-> "items", v |-> payload]

LBRACE == Tok("lbrace")
RBRACE == Tok("rbrace")
FENCE == Tok("fence")
JSONTAG == Tok("jsontag")
WS == Tok("ws")
WORD == Tok("word")
QUOTE == Tok("quote")
NUMBER == Tok("number")
ARRAY == Tok("array")
KEY == Tok("key")
DEEP == Tok("deep")

\* The texts modelled keep the items member directly behind an opening brace
\* (the member is never cut off from the object it belongs to).
WellFormedText(text) ==
    \A i \in 1..Len(text) :
        text[i].t = "items" => (i > 1 /\ text[i - 1].t = "lbrace")

\* Characters a JSON string may hold between its quotes, token by token.
StringContent ==
    {"word", "ws", "fence", "jsontag", "lbrace", "rbrace", "number", "array", "deep"}

(***************************************************************************)
(* JSON values as json.loads returns them.                                 *)
(***************************************************************************)
JsonDict(fields) == [type |-> "dict", d |-> fields]
JsonList == [type |-> "list", d |-> NoFields]
JsonInt == [type |-> "int", d |-> NoFields]
JsonStr == [type |-> "str", d |-> NoFields]

\* The outcome of scanning one value: the value and the index behind it, or the
\* exception raised.  The scanner recurses once per nested array and raises
\* RecursionError when it reaches a deep run where a value is expected.
ParseFail == [ok |-> FALSE, pos |-> 0, val |-> JsonInt, exc |-> "JSONDecodeError"]
ParseDeep == [ok |-> FALSE, pos |-> 0, val |-> JsonInt, exc |-> "RecursionError"]
ParseOk(p, v) == [ok |-> TRUE, pos |-> p, val |-> v, exc |-> "none"]

\* Index of the first token at or after i that is not whitespace (Len + 1 if none).
RECURSIVE SkipWs(_, _)
SkipWs(text, i) ==
    IF i <= Len(text) /\ text[i].t = "ws" THEN SkipWs(text, i + 1) ELSE i

\* Index of the quote closing the string opened just before i, 0 if the string
\* is not closed before a token that cannot stand inside it.
RECURSIVE CloseQuote(_, _)
CloseQuote(text, i) ==
    IF i > Len(text) THEN 0
    ELSE IF text[i].t = "quote" THEN i
    ELSE IF text[i].t \in StringContent THEN CloseQuote(text, i + 1)
    ELSE 0

\* Adjacent number tokens are the digits of one number: the index behind the
\* run of number tokens that starts at i.
RECURSIVE SkipNumber(_, _)
SkipNumber(text, i) ==
    IF i <= Len(text) /\ text[i].t = "number" THEN SkipNumber(text, i + 1) ELSE i

\* The scanner of json.loads: one JSON value starting at token i.
RECURSIVE ParseValue(_, _)
ParseValue(text, i) ==
    IF i > Len(text) THEN ParseFail
    ELSE CASE text[i].t = "lbrace" ->
                LET j == SkipWs(text, i + 1) IN
                IF j > Len(text) THEN ParseFail
                ELSE IF text[j].t = "rbrace" THEN ParseOk(j + 1, JsonDict(NoFields))
                ELSE IF text[j].t = "items" THEN
                    LET k == SkipWs(text, j + 1) IN
                    IF k <= Len(text) /\ text[k].t = "rbrace"
                    THEN ParseOk(k + 1, JsonDict([items |-> text[j].v]))
                    ELSE ParseFail
                ELSE IF text[j].t = "key" THEN
                    LET r == ParseValue(text, SkipWs(text, j + 1)) IN
                    IF ~r.ok THEN r
                    ELSE LET k == SkipWs(text, r.pos) IN
                         IF k <= Len(text) /\ text[k].t = "rbrace"
                         THEN ParseOk(k + 1, JsonDict([k |-> r.val.type]))
                         ELSE ParseFail
                ELSE ParseFail
           [] text[i].t = "deep" -> ParseDeep
           [] text[i].t = "array" -> ParseOk(i + 1, JsonList)
           [] text[i].t = "number" -> ParseOk(SkipNumber(text, i), JsonInt)
           [] text[i].t = "quote" ->
                LET j == CloseQuote(text, i + 1) IN
                IF j = 0 THEN ParseFail ELSE ParseOk(j + 1, JsonStr)
           [] OTHER -> ParseFail

\* json.loads(text): [ok, val, exc]; exc is the exception raised when ok = FALSE.
DecodeError == [ok |-> FALSE, val |-> JsonInt, exc |-> "JSONDecodeError"]

json_loads(text) ==
    LET r == ParseValue(text, SkipWs(text, 1)) IN
    IF r.ok
    THEN IF SkipWs(text, r.pos) > Len(text)
         THEN [ok |-> TRUE, val |-> r.val, exc |-> "none"]
         ELSE DecodeError
    ELSE [ok |-> FALSE, val |-> JsonInt, exc |-> r.exc]

\* str.strip(): the text without its leading and trailing whitespace.
RECURSIVE strip(_)
strip(text) ==
    IF text = <<>> THEN text
    ELSE IF Head(text).t = "ws" THEN strip(Tail(text))
    ELSE IF text[Len(text)].t = "ws" THEN strip(SubSeq(text, 1, Len(text) - 1))
    ELSE text

(***************************************************************************)
(* re.search(r'```(?:json)?\s*(\{[\s\S]*?\})\s*```', text): the leftmost   *)
(* fence from which the pattern matches, and for it the shortest group.    *)
(***************************************************************************)
GroupStart(text, a) ==
    LET b == IF a + 1 <= Len(text) /\ text[a + 1].t = "jsontag" THEN a + 2 ELSE a + 1
    IN  SkipWs(text, b)

GroupEnds(text, j) ==
    { e \in (j + 1)..Len(text) :
        /\ text[e].t = "rbrace"
        /\ LET k == SkipWs(text, e + 1) IN k <= Len(text) /\ text[k].t = "fence" }

MatchStarts(text) ==
    { a \in 1..Len(text) :
        /\ text[a].t = "fence"
        /\ LET j == GroupStart(text, a) IN
           /\ j <= Len(text)
           /\ text[j].t = "lbrace"
           /\ GroupEnds(text, j) # {} }

\* [found, group]: group is json_match.group(1).
re_search(text) ==
    IF MatchStarts(text) = {} THEN [found |-> FALSE, group |-> <<>>]
    ELSE LET a == Min(MatchStarts(text))
             j == GroupStart(text, a)
             e == Min(GroupEnds(text, j))
         IN  [found |-> TRUE, group |-> SubSeq(text, j, e)]

\* text.find('{') and text.rfind('}') as token indexes; 0 stands for -1.
first_brace(text) ==
    LET S == { i \in 1..Len(text) : text[i].t = "lbrace" } IN
    IF S = {} THEN 0 ELSE Min(S)

last_brace(text) ==
    LET S == { i \in 1..Len(text) :
                 text[i].t = "rbrace" \/ (text[i].t = "items" /\ Len(text[i].v) > 0) } IN
    IF S = {} THEN 0 ELSE Max(S)

(***************************************************************************)
(* The three strategies of _extract_json, each on the stripped text:       *)
(* [tried, ok, val, exc].  A strategy catches json.JSONDecodeError only.   *)
(***************************************************************************)
NotTried == [tried |-> FALSE, ok |-> FALSE, val |-> JsonInt, exc |-> "none"]
Tried(r) == [tried |-> TRUE, ok |-> r.ok, val |-> r.val, exc |-> r.exc]

Caught(s) == ~s.tried \/ (~s.ok /\ s.exc = "JSONDecodeError")

Strategy1(text) == Tried(json_loads(text))

Strategy2(text) ==
    LET m == re_search(text) IN
    IF m.found THEN Tried(json_loads(m.group)) ELSE NotTried

\* text[first_brace:last_brace + 1].  When the last "}" lies inside the items
\* member, the substring ends inside that member's array: its last token is
\* the member cut short, which no value can hold.
BraceSpan(text, f, l) ==
    IF text[l].t = "items" THEN SubSeq(text, f, l - 1) \o <<Tok("cut")>>
    ELSE SubSeq(text, f, l)

Strategy3(text) ==
    LET f == first_brace(text)
        l == last_brace(text)
    IN  IF f # 0 /\ l # 0 /\ l > f
        THEN Tried(json_loads(BraceSpan(text, f, l)))
        ELSE NotTried

Extracted(n, v) == [ok |-> TRUE, val |-> v, strategy |-> n, exc |-> "none"]
ExtractError(exc) == [ok |-> FALSE, val |-> JsonInt, strategy |-> 0, exc |-> exc]

\* [ok, val, strategy, exc]: the value returned and the strategy that gave it,
\* or the exception that leaves the method.
_extract_json(raw_text) ==
    LET text == strip(raw_text) IN
    IF Strategy1(text).ok THEN Extracted(1, Strategy1(text).val)
    ELSE IF ~Caught(Strategy1(text)) THEN ExtractError(Strategy1(text).exc)
    ELSE IF Strategy2(text).ok THEN Extracted(2, Strategy2(text).val)
    ELSE IF ~Caught(Strategy2(text)) THEN ExtractError(Strategy2(text).exc)
    ELSE IF Strategy3(text).ok THEN Extracted(3, Strategy3(text).val)
    ELSE IF ~Caught(Strategy3(text)) THEN ExtractError(Strategy3(text).exc)
    ELSE ExtractError("ValueError")

(***************************************************************************)
(* Numbers.  round() of Python rounds to the nearest value, a tie to the   *)
(* even neighbour: RoundHalfEven(n, d) is round(n / d) for d > 0.  The     *)
(* amounts used as inputs have no tie at the rounded digit, where binary   *)
(* floating point could round the other way.                               *)
(***************************************************************************)
RoundHalfEven(n, d) ==
    LET q == n \div d
        r == n - q * d
    IN  IF 2 * r < d THEN q
        ELSE IF 2 * r > d THEN q + 1
        ELSE IF q % 2 = 0 THEN q ELSE q + 1

\* round(cost_savings, 2): thousandths to hundredths.
round2(cost_savings) == RoundHalfEven(cost_savings, 10)

\* round(cost_savings / current_cost * 100, 1) in tenths of a percent.
round1_percent(cost_savings, current_cost) == RoundHalfEven(cost_savings * 1000, current_cost)

(***************************************************************************)
(* Values.  None is Python's None where a string is expected.              *)
(***************************************************************************)
None == "None"
ItemIds == {"A1", "B2"}
UnknownId == "ZZ"

\* f"chk_{item_result['itemId']}"
chk(itemId) ==
    CASE itemId = "A1" -> "chk_A1"
      [] itemId = "B2" -> "chk_B2"
      [] OTHER -> "chk_ZZ"

(***************************************************************************)
(* Exceptions are named by their class.  main.py answers 422 to a          *)
(* ValueError (json.JSONDecodeError and pydantic's ValidationError are     *)
(* subclasses of it) and 500 to every other exception, the HTTPException   *)
(* raised inside its own try block included.                               *)
(***************************************************************************)
IsValueError(exc) == exc \in {"ValueError", "ValidationError", "JSONDecodeError"}

status_for(exc) == IF IsValueError(exc) THEN 422 ELSE 500

(***************************************************************************)
(* GeminiService._process_gemini_response                                  *)
(***************************************************************************)
Raise(exc) == [ok |-> FALSE, exc |-> exc, items |-> <<>>]
Return(items) == [ok |-> TRUE, exc |-> "none", items |-> items]

\* next((i for i in original_items if i['itemId'] == item_id), None):
\* the index of the first match, 0 for None.
find_original(original_items, item_id) ==
    LET S == { i \in 1..Len(original_items) : original_items[i].itemId = item_id } IN
    IF S = {} THEN 0 ELSE Min(S)

\* A slice that keeps one suggestion too many.
top_suggestions_4(suggs) == SubSeq(suggs, 1, IF Len(suggs) < 4 THEN Len(suggs) ELSE 4)

\* item_result.get('suggestions', [])[:3]
top_suggestions(suggs) ==
    SubSeq(suggs, 1, IF Len(suggs) < TopSuggestions THEN Len(suggs) ELSE TopSuggestions)

\* A suggestion whose required keys are all present (no KeyError).
sugg_keys_ok(sugg) == Has(sugg, "estimatedCost") /\ Has(sugg, "name") /\ Has(sugg, "rationale")

\* A loop body that keeps the savings the model attached.
make_suggestion_trusting(sugg, current_cost) ==
    LET cost_savings == current_cost - sugg.estimatedCost
        savings_percent == IF current_cost > 0
                           THEN round1_percent(cost_savings, current_cost) ELSE 0
    IN  [ suggestedItemId |-> None,
          name |-> sugg.name,
          estimatedCost |-> sugg.estimatedCost,
          costSavings |-> Get(sugg, "costSavings", round2(cost_savings)),
          savingsPercent |-> Get(sugg, "savingsPercent", savings_percent),
          confidence |-> Get(sugg, "confidence", DefaultConfidence),
          rationale |-> sugg.rationale ]

\* The body of the loop over the retained suggestions.
make_suggestion(sugg, current_cost) ==
    LET cost_savings == current_cost - sugg.estimatedCost
        savings_percent == IF current_cost > 0
                           THEN round1_percent(cost_savings, current_cost) ELSE 0
    IN  [ suggestedItemId |-> None,
          name |-> sugg.name,
          estimatedCost |-> sugg.estimatedCost,
          costSavings |-> round2(cost_savings),
          savingsPercent |-> savings_percent,
          confidence |-> Get(sugg, "confidence", DefaultConfidence),
          rationale |-> sugg.rationale ]

\* A removalSuggestion that is not recommended unless the model says so.
make_removal_default_false(item_result, never_used, removal) ==
    [ recommended |-> Get(removal, "recommended", FALSE),
      reason |-> Get(removal, "reason", None),
      actionableCheckboxId |->
          IF Get(removal, "recommended", FALSE) THEN chk(item_result.itemId) ELSE None ]

\* The removalSuggestion dict of one processed item.
make_removal(item_result, never_used, removal) ==
    [ recommended |-> Get(removal, "recommended", never_used),
      reason |-> Get(removal, "reason", None),
      actionableCheckboxId |->
          IF Get(removal, "recommended", FALSE) THEN chk(item_result.itemId) ELSE None ]

\* The dict appended to processed_items for one model entry with a match.
make_item(item_result, original, suggestions) ==
    LET never_used == Get(item_result, "neverUsedFlag", FALSE)
        removal == Get(item_result, "removalSuggestion", NoFields)
    IN  [ itemId |-> item_result.itemId,
          name |-> item_result.name,
          currentCost |-> original.currentCost,
          lastUsed |-> original.lastUsed,
          neverUsedFlag |-> never_used,
          suggestions |-> suggestions,
          removalSuggestion |-> make_removal(item_result, never_used, removal) ]

\* A pass that analyses a model entry without a match against the first
\* request item instead of skipping it.
process_entry_fabricating(item_result, original_items) ==
    IF ~Has(item_result, "itemId") THEN [kind |-> "KeyError", item |-> NoFields]
    ELSE LET o == find_original(original_items, item_result.itemId)
             original == IF o = 0 THEN original_items[1] ELSE original_items[o]
             retained == top_suggestions(Get(item_result, "suggestions", <<>>))
         IN  IF \E k \in 1..Len(retained) : ~sugg_keys_ok(retained[k])
                THEN [kind |-> "KeyError", item |-> NoFields]
             ELSE IF ~Has(item_result, "name") THEN [kind |-> "KeyError", item |-> NoFields]
             ELSE [kind |-> "item",
                   item |-> make_item(item_result, original,
                                [k \in 1..Len(retained) |->
                                    make_suggestion(retained[k], original.currentCost)])]

\* One pass of "for item_result in items_from_gemini": [kind, item] with kind
\* "skip" (continue), "item" (append) or the class of the exception raised.
\* The lookup reads item_result['itemId'] once per request item: with no
\* request item it is not read.
process_entry(item_result, original_items) ==
    IF original_items # <<>> /\ ~Has(item_result, "itemId")
    THEN [kind |-> "KeyError", item |-> NoFields]
    ELSE LET o == IF original_items = <<>> THEN 0
                  ELSE find_original(original_items, item_result.itemId)
         IN  IF o = 0 THEN [kind |-> "skip", item |-> NoFields]
             ELSE LET original == original_items[o]
                      retained == top_suggestions(Get(item_result, "suggestions", <<>>))
                  IN  IF \E k \in 1..Len(retained) : ~sugg_keys_ok(retained[k])
                         THEN [kind |-> "KeyError", item |-> NoFields]
                      ELSE IF ~Has(item_result, "name")
                         THEN [kind |-> "KeyError", item |-> NoFields]
                      ELSE [kind |-> "item",
                            item |-> make_item(item_result, original,
                                         [k \in 1..Len(retained) |->
                                             make_suggestion(retained[k], original.currentCost)])]

\* A loop that keeps one analysis per itemId, the first.
RECURSIVE process_loop_once_per_id(_, _, _, _)
process_loop_once_per_id(items_from_gemini, original_items, n, processed_items) ==
    IF n > Len(items_from_gemini) THEN Return(processed_items)
    ELSE LET r == process_entry(items_from_gemini[n], original_items) IN
         CASE r.kind = "skip" ->
                process_loop_once_per_id(items_from_gemini, original_items, n + 1,
                                         processed_items)
           [] r.kind = "item" ->
                process_loop_once_per_id(items_from_gemini, original_items, n + 1,
                    IF \E k \in 1..Len(processed_items) :
                           processed_items[k].itemId = r.item.itemId
                    THEN processed_items
                    ELSE Append(processed_items, r.item))
           [] OTHER -> Raise(r.kind)

\* The loop, from entry n on, with the processed_items built so far.
RECURSIVE process_loop(_, _, _, _)
process_loop(items_from_gemini, original_items, n, processed_items) ==
    IF n > Len(items_from_gemini) THEN Return(processed_items)
    ELSE LET r == process_entry(items_from_gemini[n], original_items) IN
         CASE r.kind = "skip" ->
                process_loop(items_from_gemini, original_items, n + 1, processed_items)
           [] r.kind = "item" ->
                process_loop(items_from_gemini, original_items, n + 1,
                             Append(processed_items, r.item))
           [] OTHER -> Raise(r.kind)

\* gemini_result.get("items", []) of a value that is no dict is an AttributeError.
_process_gemini_response(gemini_result, original_items) ==
    IF gemini_result.type # "dict" THEN Raise("AttributeError")
    ELSE process_loop(Get(gemini_result.d, "items", <<>>), original_items, 1, <<>>)

(***************************************************************************)
(* models.py: ItemAnalysis built from item_data.  The values of the model's *)
(* answers considered here have the JSON types the prompt asks for, so     *)
(* the one constraint the processed dicts can break is                     *)
(* AlternativeSuggestion.confidence, Field(ge=0, le=1); pydantic's         *)
(* ValidationError is a ValueError.                                        *)
(***************************************************************************)
confidence_ok(item_data) ==
    \A k \in 1..Len(item_data.suggestions) :
        /\ item_data.suggestions[k].confidence >= 0
        /\ item_data.suggestions[k].confidence <= 100

(***************************************************************************)
(* prompts.py: build_summary_prompt.  The summary sentence is modelled by  *)
(* the four numbers it prints (the savings in hundredths, and as printed).  *)
(***************************************************************************)
\* A figure that adds up every suggestion of the item.
RECURSIVE sum_savings(_, _)
sum_savings(suggestions, k) ==
    IF k > Len(suggestions) THEN 0
    ELSE suggestions[k].costSavings + sum_savings(suggestions, k + 1)

max_savings_sum(item) == sum_savings(item.suggestions, 1)

\* max([s['costSavings'] for s in item['suggestions']])
max_savings(item) ==
    Max({ item.suggestions[k].costSavings : k \in 1..Len(item.suggestions) })

\* f"{x:.2f}" of an amount of h hundredths: sign, integer part, two decimals.
format_2f(h) ==
    [ negative |-> h < 0,
      whole |-> (IF h < 0 THEN 0 - h ELSE h) \div 100,
      cents |-> (IF h < 0 THEN 0 - h ELSE h) % 100 ]

RECURSIVE total_potential_savings(_, _)
total_potential_savings(analysis_results, n) ==
    IF n > Len(analysis_results) THEN 0
    ELSE (IF analysis_results[n].suggestions # <<>>
          THEN max_savings(analysis_results[n]) ELSE 0)
         + total_potential_savings(analysis_results, n + 1)

build_summary_prompt(analysis_results) ==
    [ total_items |-> Len(analysis_results),
      items_with_suggestions |->
          Cardinality({ n \in 1..Len(analysis_results) :
                          analysis_results[n].suggestions # <<>> }),
      removal_candidates |->
          Cardinality({ n \in 1..Len(analysis_results) :
                          analysis_results[n].neverUsedFlag }),
      total_potential_savings |-> total_potential_savings(analysis_results, 1),
      savings_text |-> format_2f(total_potential_savings(analysis_results, 1)) ]

(***************************************************************************)
(* main.py: the priority items.                                            *)
(***************************************************************************)
\* A walk that counts savings of exactly the threshold as priority.
RECURSIVE priority_items_at_least(_, _)
priority_items_at_least(items_analyzed, n) ==
    IF n > Len(items_analyzed) THEN <<>>
    ELSE LET item == items_analyzed[n] IN
         (IF item.suggestions # <<>> /\ max_savings(item) >= PriorityThreshold
          THEN <<item.itemId>> ELSE <<>>)
         \o (IF item.removalSuggestion.recommended THEN <<item.itemId>> ELSE <<>>)
         \o priority_items_at_least(items_analyzed, n + 1)

\* The loop over items_analyzed, from item n on.
RECURSIVE priority_items(_, _)
priority_items(items_analyzed, n) ==
    IF n > Len(items_analyzed) THEN <<>>
    ELSE LET item == items_analyzed[n] IN
         (IF item.suggestions # <<>> /\ max_savings(item) > PriorityThreshold
          THEN <<item.itemId>> ELSE <<>>)
         \o (IF item.removalSuggestion.recommended THEN <<item.itemId>> ELSE <<>>)
         \o priority_items(items_analyzed, n + 1)

top_priority(priority) ==
    SubSeq(priority, 1, IF Len(priority) < TopPriority THEN Len(priority) ELSE TopPriority)

(***************************************************************************)
(* Responses.  An error response carries the error and no analyses.        *)
(***************************************************************************)
NoResponse == [status |-> 0]

ErrorResponse(status, exc) == [status |-> status, error |-> exc]

SuccessResponse(items_analyzed) ==
    [ status |-> 200,
      itemsAnalyzed |-> items_analyzed,
      summary |-> build_summary_prompt(items_analyzed),
      priorityItems |-> top_priority(priority_items(items_analyzed, 1)),
      pageSize |-> Len(items_analyzed) ]

(***************************************************************************)
(* The outcome of the provider call: the value or the exception that       *)
(* run_in_executor hands back to the coroutine.                            *)
(***************************************************************************)
NoFuture == [kind |-> "pending", exc |-> "none", candidates |-> 0, parts |-> 0, text |-> <<>>]
ProviderRaises == [kind |-> "exception", exc |-> "ProviderError", candidates |-> 0, parts |-> 0, text |-> <<>>]
NoCandidates == [kind |-> "response", exc |-> "none", candidates |-> 0, parts |-> 0, text |-> <<>>]
NoParts == [kind |-> "response", exc |-> "none", candidates |-> 1, parts |-> 0, text |-> <<>>]
TextCompletion(text) == [kind |-> "response", exc |-> "none", candidates |-> 1, parts |-> 1, text |-> text]

(***************************************************************************)
(* main.py generate_suggestions up to its await: the validation of the     *)
(* item list.  "ok" or the exception raised inside the try block.          *)
(***************************************************************************)
\* A validation that already refuses a list of exactly the maximum length.
validate_items_off_by_one(items) ==
    IF Len(items) = 0 THEN "HTTPException"
    ELSE IF Len(items) >= MaxItemsPerRequest THEN "HTTPException"
    ELSE "ok"

validate_items(items) ==
    IF Len(items) = 0 THEN "HTTPException"
    ELSE IF Len(items) > MaxItemsPerRequest THEN "HTTPException"
    ELSE "ok"

(***************************************************************************)
(* The handler from the completion of the provider call to its response:   *)
(* gemini_service.generate_suggestions after the await, then main.py.      *)
(* [response, steps]: steps are the pipeline steps completed here.         *)
(***************************************************************************)
Failed(exc, done) == [response |-> ErrorResponse(status_for(exc), exc), steps |-> done]

\* A continuation that answers with the items projected so far when the
\* projection fails.
resume_handler_partial(items, fut) ==
    IF fut.kind = "exception" THEN Failed(fut.exc, <<>>)
    ELSE IF fut.candidates = 0 THEN Failed("ValueError", <<>>)
    ELSE IF fut.parts = 0 THEN Failed("ValueError", <<>>)
    ELSE LET result == _extract_json(fut.text) IN
         IF ~result.ok THEN Failed(result.exc, <<>>)
         ELSE LET processed == _process_gemini_response(result.val, items) IN
              IF ~processed.ok
              THEN [ response |-> SuccessResponse(<<>>),
                     steps |-> <<"Extracted", "SummaryBuilt", "ResponseAssembled">> ]
              ELSE IF \E n \in 1..Len(processed.items) : ~confidence_ok(processed.items[n])
                   THEN Failed("ValidationError", <<"Extracted">>)
              ELSE [ response |-> SuccessResponse(processed.items),
                     steps |-> <<"Extracted", "Projected", "SummaryBuilt",
                                 "ResponseAssembled">> ]

resume_handler(items, fut) ==
    IF fut.kind = "exception" THEN Failed(fut.exc, <<>>)
    ELSE IF fut.candidates = 0 THEN Failed("ValueError", <<>>)
    ELSE IF fut.parts = 0 THEN Failed("ValueError", <<>>)
    ELSE LET result == _extract_json(fut.text) IN
         IF ~result.ok THEN Failed(result.exc, <<>>)
         ELSE LET processed == _process_gemini_response(result.val, items) IN
              IF ~processed.ok THEN Failed(processed.exc, <<"Extracted">>)
              ELSE IF \E n \in 1..Len(processed.items) : ~confidence_ok(processed.items[n])
                   THEN Failed("ValidationError", <<"Extracted">>)
              ELSE [ response |-> SuccessResponse(processed.items),
                     steps |-> <<"Extracted", "Projected", "SummaryBuilt",
                                 "ResponseAssembled">> ]

(***************************************************************************)
(* Inputs.                                                                 *)
(***************************************************************************)
CostSet == {0 - 2000, 0, 10000, 100000}

ItemInput(id, cost, last) ==
    [itemId |-> id, name |-> "Gauze", currentCost |-> cost, lastUsed |-> last]

ItemInputs == { ItemInput("A1", 10000, "never"), ItemInput("B2", 100000, None),
                ItemInput("A1", 0, None), ItemInput("B2", 0 - 2000, "never") }

\* A list of n items, as long as the limit or longer.
LongList(n) ==
    [i \in 1..n |-> IF i % 2 = 1 THEN ItemInput("A1", 10000, "never")
                    ELSE ItemInput("B2", 100000, None)]

Requests ==
    SeqsUpTo(ItemInputs, MaxReqItems)
        \cup {LongList(MaxItemsPerRequest), LongList(MaxItemsPerRequest + 1)}

\* Model suggestions.
sA == [name |-> "AltA", estimatedCost |-> 5994, confidence |-> 80, rationale |-> "cheaper"]
sB == [name |-> "AltB", estimatedCost |-> 50000, rationale |-> "bulk",
       costSavings |-> 99999, savingsPercent |-> 999]
sNoName == [estimatedCost |-> 5994, confidence |-> 80, rationale |-> "cheaper"]
sNoCost == [name |-> "AltA", confidence |-> 80, rationale |-> "cheaper"]
sNoRationale == [name |-> "AltA", estimatedCost |-> 5994, confidence |-> 80]
sBadConfidence == [name |-> "AltC", estimatedCost |-> 5994, confidence |-> 150, rationale |-> "cheaper"]

Suggestions == {sA, sB, sNoName, sNoCost, sNoRationale, sBadConfidence}

\* Every combination of present and absent keys, for lists of one suggestion.
SuggestionShapes ==
    { n @@ e @@ c @@ r @@ x :
        n \in {NoFields, [name |-> "AltA"]},
        e \in {NoFields, [estimatedCost |-> 5994], [estimatedCost |-> 50000]},
        c \in {NoFields, [confidence |-> 0], [confidence |-> 100], [confidence |-> 150]},
        r \in {NoFields, [rationale |-> "cheaper"]},
        x \in {NoFields, [costSavings |-> 99999, savingsPercent |-> 999]} }

SuggestionLists ==
    SeqsUpTo(Suggestions, MaxSugg) \cup { <<s>> : s \in SuggestionShapes }

\* Model item entries.
eNeverUsed == [itemId |-> "A1", name |-> "Gauze", neverUsedFlag |-> TRUE,
               suggestions |-> <<sA>>,
               removalSuggestion |-> [recommended |-> TRUE, reason |-> "never used"]]
eRenamed == [itemId |-> "B2", name |-> "Other", currentCost |-> 77777,
             suggestions |-> <<sA, sB, sA, sNoName>>]
eUnknown == [itemId |-> UnknownId, name |-> "Other", neverUsedFlag |-> TRUE,
             suggestions |-> <<sNoCost>>]
eNoRemoval == [itemId |-> "A1", name |-> "Gauze", neverUsedFlag |-> TRUE]
eBadSuggestion == [itemId |-> "B2", name |-> "Gauze", suggestions |-> <<sB, sNoCost>>]
eBadConfidence == [itemId |-> "A1", name |-> "Gauze", suggestions |-> <<sBadConfidence>>]

ePriority == [itemId |-> "B2", name |-> "Gauze", neverUsedFlag |-> TRUE,
              suggestions |-> <<sA>>,
              removalSuggestion |-> [recommended |-> TRUE, reason |-> "unused"]]

Entries == {eNeverUsed, eRenamed, eUnknown, eNoRemoval, eBadSuggestion, eBadConfidence}

\* Every combination of present and absent keys, for arrays of one entry.
EntryShapes ==
    { i @@ n @@ c @@ f @@ r @@ g :
        i \in {NoFields, [itemId |-> "A1"], [itemId |-> "B2"], [itemId |-> UnknownId]},
        n \in {NoFields, [name |-> "Gauze"], [name |-> "Other"]},
        c \in {NoFields, [currentCost |-> 77777, lastUsed |-> "2024-01-01"]},
        f \in {NoFields, [neverUsedFlag |-> TRUE], [neverUsedFlag |-> FALSE]},
        r \in {NoFields, [removalSuggestion |-> [reason |-> "unused"]],
               [removalSuggestion |-> [recommended |-> TRUE, reason |-> "unused"]],
               [removalSuggestion |-> [recommended |-> FALSE]]},
        g \in {NoFields, [suggestions |-> <<>>], [suggestions |-> <<sA>>]} }

Payloads == SeqsUpTo(Entries, MaxEntries)

\* The text of a JSON object holding the items array, bare and wrapped.
Bare(payload) == <<LBRACE, ItemsTok(payload), RBRACE>>
Fenced(payload) ==
    <<WORD, WS, FENCE, JSONTAG, WS>> \o Bare(payload) \o <<WS, FENCE, WS, WORD>>
InProse(payload) == <<WORD, WS>> \o Bare(payload) \o <<WS, WORD>>

Texts ==
    { Bare(p) : p \in Payloads }
        \cup { Bare(<<ePriority, eNeverUsed, ePriority, ePriority>>) }
        \cup { Fenced(<<eNeverUsed>>), InProse(<<eNeverUsed>>), <<WORD, WS, WORD>>,
               <<ARRAY>>, <<NUMBER>>, <<QUOTE, WORD, QUOTE>>, <<LBRACE, RBRACE>>, <<>> }

\* Extraction: every short text, and JSON values wrapped in prose and fences.
Tokens ==
    { LBRACE, RBRACE, FENCE, JSONTAG, WS, WORD, QUOTE, NUMBER, ARRAY, KEY, DEEP,
      ItemsTok(<<>>), ItemsTok(<<eNeverUsed>>) }

Cores ==
    { Bare(<<>>), Bare(<<eNeverUsed>>), <<LBRACE, RBRACE>>, <<ARRAY>>, <<NUMBER>>,
      <<QUOTE, WORD, QUOTE>>, <<LBRACE, WORD, RBRACE>>, <<WORD>>, <<DEEP>>,
      <<LBRACE, ItemsTok(<<eNeverUsed>>)>>,
      <<LBRACE, KEY, QUOTE, FENCE, LBRACE, WORD, RBRACE, FENCE, QUOTE, RBRACE>> }

Prefixes ==
    { <<>>, <<WS>>, <<WORD, WS>>, <<WORD, WS, FENCE, JSONTAG, WS>>, <<FENCE>>,
      <<DEEP, WS>>, <<FENCE, ARRAY, FENCE, WS>>, <<FENCE, LBRACE, WORD, RBRACE, FENCE, WS>> }

Suffixes ==
    { <<>>, <<WS>>, <<WS, WORD>>, <<WS, FENCE, WS, WORD>>, <<FENCE>>,
      <<WS, FENCE, WORD, FENCE>> }

ExtractTexts ==
    { t \in SeqsUpTo(Tokens, MaxTextLen) : WellFormedText(t) }
        \cup { a \o b \o c : a \in Prefixes, b \in Cores, c \in Suffixes }

\* What the provider call may yield for a request.  Every request gets the
\* failures and the texts above; a request of one item also gets every
\* suggestion list and every shape of entry for it, and the extraction texts.
BaseCompletions ==
    {ProviderRaises, NoCandidates, NoParts} \cup { TextCompletion(t) : t \in Texts }

WideTexts(item) ==
    { Bare(<<[itemId |-> item.itemId, name |-> item.name, suggestions |-> l]>>) :
        l \in SuggestionLists }
        \cup { Bare(<<e>>) : e \in EntryShapes }
        \cup ExtractTexts

Completions(items) ==
    IF Len(items) = 1
    THEN BaseCompletions \cup { TextCompletion(t) : t \in WideTexts(items[1]) }
    ELSE BaseCompletions

(***************************************************************************)
(* The state machine.  An action is what runs between two suspension       *)
(* points of the event loop, or one step of a worker thread.               *)
(***************************************************************************)
NoRequest == [items |-> <<>>]

Init ==
    /\ inbox \in { [c \in Clients |-> IF c = 1 THEN [items |-> r] ELSE NoRequest] :
                     r \in Requests }
    /\ pc = [c \in Clients |-> IF c = 1 THEN "received" ELSE "absent"]
    /\ queue = <<>>
    /\ running = {}
    /\ future = [c \in Clients |-> NoFuture]
    /\ calls = [c \in Clients |-> 0]
    /\ steps = [c \in Clients |-> <<>>]
    /\ response = [c \in Clients |-> NoResponse]
    /\ connected = [c \in Clients |-> c = 1]

\* main.py generate_suggestions from the receipt of the request to the await of
\* run_in_executor: validation, prompt building, submission to the executor.
HandleRequest(c) ==
    /\ pc[c] = "received"
    /\ LET exc == validate_items(inbox[c].items) IN
       IF exc # "ok"
       THEN /\ response' = [response EXCEPT ![c] = ErrorResponse(status_for(exc), exc)]
            /\ pc' = [pc EXCEPT ![c] = "done"]
            /\ UNCHANGED <<queue, steps>>
       ELSE /\ queue' = Append(queue, c)
            /\ steps' = [steps EXCEPT ![c] = <<"Validated", "PromptBuilt", "CompletionRequested">>]
            /\ pc' = [pc EXCEPT ![c] = "awaiting"]
            /\ UNCHANGED response
    /\ UNCHANGED <<inbox, running, future, calls, connected>>

\* An executor that starts a thread for every work item.
WorkerStart_unbounded(c) ==
    /\ queue # <<>>
    /\ Head(queue) = c
    /\ queue' = Tail(queue)
    /\ running' = running \cup {c}
    /\ calls' = [calls EXCEPT ![c] = @ + 1]
    /\ UNCHANGED <<inbox, pc, future, steps, response, connected>>

\* A worker thread of the executor takes the oldest work item and calls
\* _call_gemini_sync, which invokes the provider.
WorkerStart(c) ==
    /\ queue # <<>>
    /\ Head(queue) = c
    /\ Cardinality(running) < max_workers
    /\ queue' = Tail(queue)
    /\ running' = running \cup {c}
    /\ calls' = [calls EXCEPT ![c] = @ + 1]
    /\ UNCHANGED <<inbox, pc, future, steps, response, connected>>

\* The provider call returns or raises; the worker sets the future and is free.
WorkerFinish(c) ==
    /\ c \in running
    /\ \E completion \in Completions(inbox[c].items) :
          future' = [future EXCEPT ![c] = completion]
    /\ running' = running \ {c}
    /\ pc' = [pc EXCEPT ![c] = "resumable"]
    /\ UNCHANGED <<inbox, queue, calls, steps, response, connected>>

\* A continuation that submits the provider call once more after it raised.
Resume_retrying(c) ==
    /\ pc[c] = "resumable"
    /\ IF future[c].kind = "exception" /\ calls[c] < 2
       THEN /\ queue' = Append(queue, c)
            /\ future' = [future EXCEPT ![c] = NoFuture]
            /\ pc' = [pc EXCEPT ![c] = "awaiting"]
            /\ UNCHANGED <<response, steps>>
       ELSE /\ LET r == resume_handler(inbox[c].items, future[c]) IN
               /\ response' = [response EXCEPT ![c] = r.response]
               /\ steps' = [steps EXCEPT ![c] = @ \o r.steps]
            /\ pc' = [pc EXCEPT ![c] = "done"]
            /\ UNCHANGED <<queue, future>>
    /\ UNCHANGED <<inbox, running, calls, connected>>

\* The event loop resumes the coroutine, which runs to its response.
Resume(c) ==
    /\ pc[c] = "resumable"
    /\ LET r == resume_handler(inbox[c].items, future[c]) IN
       /\ response' = [response EXCEPT ![c] = r.response]
       /\ steps' = [steps EXCEPT ![c] = @ \o r.steps]
    /\ pc' = [pc EXCEPT ![c] = "done"]
    /\ UNCHANGED <<inbox, queue, running, future, calls, connected>>

Next ==
    \E c \in Clients :
        \/ HandleRequest(c)
        \/ WorkerStart(c)
        \/ WorkerFinish(c)
        \/ Resume(c)

Spec == Init /\ [][Next]_vars

(***************************************************************************)
(* The executor under load: every client posts a request at once.  The     *)
(* pool does not look at the provider's answers, so they are cut down to   *)
(* one per call: the call raises for the odd clients and returns a        *)
(* response without candidates for the even ones.                          *)
(***************************************************************************)
PoolRequest == <<ItemInput("A1", 10000, "never")>>

PoolCompletions(c) ==
    IF c % 2 = 1 THEN {ProviderRaises} ELSE {NoCandidates}

\* Client 1 posts a valid request or an empty list, the others a valid one.
InitPool ==
    /\ inbox \in { [c \in Clients |-> [items |-> IF c = 1 THEN r ELSE PoolRequest]] :
                     r \in {PoolRequest, <<>>} }
    /\ pc = [c \in Clients |-> "received"]
    /\ queue = <<>>
    /\ running = {}
    /\ future = [c \in Clients |-> NoFuture]
    /\ calls = [c \in Clients |-> 0]
    /\ steps = [c \in Clients |-> <<>>]
    /\ response = [c \in Clients |-> NoResponse]
    /\ connected = [c \in Clients |-> TRUE]

\* A provider call that is abandoned with its worker when the caller has gone.
PoolWorkerFinish_abandoned(c) ==
    /\ c \in running
    /\ connected[c]
    /\ \E completion \in PoolCompletions(c) :
          future' = [future EXCEPT ![c] = completion]
    /\ running' = running \ {c}
    /\ pc' = [pc EXCEPT ![c] = "resumable"]
    /\ UNCHANGED <<inbox, queue, calls, steps, response, connected>>

\* The provider call returns or raises; the worker sets the future and is free.
PoolWorkerFinish(c) ==
    /\ c \in running
    /\ \E completion \in PoolCompletions(c) :
          future' = [future EXCEPT ![c] = completion]
    /\ running' = running \ {c}
    /\ pc' = [pc EXCEPT ![c] = "resumable"]
    /\ UNCHANGED <<inbox, queue, calls, steps, response, connected>>

\* The caller closes the connection while its handler is suspended at the await.
\* Neither the coroutine nor the work item submitted to the executor is told.
Disconnect(c) ==
    /\ c <= MaxDroppers
    /\ pc[c] = "awaiting"
    /\ connected[c]
    /\ connected' = [connected EXCEPT ![c] = FALSE]
    /\ UNCHANGED <<inbox, pc, queue, running, future, calls, steps, response>>

NextPool ==
    \E c \in Clients :
        \/ HandleRequest(c)
        \/ WorkerStart(c)
        \/ PoolWorkerFinish(c)
        \/ Resume(c)
        \/ Disconnect(c)

SpecPool == InitPool /\ [][NextPool]_vars

\* The event loop runs every ready coroutine, an idle worker takes the oldest
\* work item, and every provider call returns or raises.
FairPool ==
    \A c \in Clients :
        /\ WF_vars(HandleRequest(c))
        /\ WF_vars(WorkerStart(c))
        /\ WF_vars(PoolWorkerFinish(c))
        /\ WF_vars(Resume(c))

SpecPoolFair == InitPool /\ [][NextPool]_vars /\ FairPool

(***************************************************************************)
(* Properties.                                                             *)
(***************************************************************************)
Range(seq) == { seq[i] : i \in 1..Len(seq) }

Answered(c) == pc[c] = "done"
Succeeded(c) == pc[c] = "done" /\ response[c].status = 200
GotText(c) == future[c].kind = "response" /\ future[c].candidates = 1 /\ future[c].parts = 1

RequestIds(c) == { inbox[c].items[i].itemId : i \in 1..Len(inbox[c].items) }

\* The model's items array as extracted from the provider's text.
ModelItems(c) ==
    LET r == _extract_json(future[c].text) IN
    IF GotText(c) /\ r.ok /\ r.val.type = "dict" THEN Get(r.val.d, "items", <<>>) ELSE <<>>

IsKnown(c, entry) == Has(entry, "itemId") /\ entry.itemId \in RequestIds(c)
IsUnknown(c, entry) == Has(entry, "itemId") /\ entry.itemId \notin RequestIds(c)

RECURSIVE Without(_, _, _)
Without(c, entries, n) ==
    IF n > Len(entries) THEN <<>>
    ELSE (IF IsUnknown(c, entries[n]) THEN <<>> ELSE <<entries[n]>>)
         \o Without(c, entries, n + 1)

\* The model's entries whose itemId is in the request, in the model's order.
RECURSIVE KnownEntries(_, _, _)
KnownEntries(c, entries, n) ==
    IF n > Len(entries) THEN <<>>
    ELSE (IF IsKnown(c, entries[n]) THEN <<entries[n]>> ELSE <<>>)
         \o KnownEntries(c, entries, n + 1)

\* The request item an analysis belongs to: the first one with its itemId.
OriginalOf(c, itemId) ==
    inbox[c].items[Min({ i \in 1..Len(inbox[c].items) : inbox[c].items[i].itemId = itemId })]

ModelSuggestions(entry) == Get(entry, "suggestions", <<>>)
Retained(entry) ==
    SubSeq(ModelSuggestions(entry), 1,
           IF Len(ModelSuggestions(entry)) < 3 THEN Len(ModelSuggestions(entry)) ELSE 3)

\* C1: every analysis of a response has an itemId of the request and stems from
\* a model entry with that itemId; model entries with an itemId that is not in
\* the request are skipped and change nothing in the response (they do not make
\* the request fail), and there is one analysis per model entry with a known itemId.
C1_AnalysesAreRequestItems ==
    \A c \in Clients :
        /\ Succeeded(c) =>
              LET analyses == response[c].itemsAnalyzed
                  known == KnownEntries(c, ModelItems(c), 1)
              IN  /\ \A n \in 1..Len(analyses) : analyses[n].itemId \in RequestIds(c)
                  /\ Len(analyses) = Len(known)
                  /\ \A n \in 1..Len(analyses) : analyses[n].itemId = known[n].itemId
        /\ (Answered(c) /\ GotText(c) /\ _extract_json(future[c].text).ok
              /\ _extract_json(future[c].text).val.type = "dict") =>
              response[c] =
                  resume_handler(inbox[c].items,
                      TextCompletion(Bare(Without(c, ModelItems(c), 1)))).response

C1_Witness ==
    \E c \in Clients :
        /\ Succeeded(c)
        /\ \E m \in 1..Len(ModelItems(c)) :
              /\ IsUnknown(c, ModelItems(c)[m])
              /\ ModelSuggestions(ModelItems(c)[m]) # <<>>
              /\ ~sugg_keys_ok(ModelSuggestions(ModelItems(c)[m])[1])
        /\ Len(response[c].itemsAnalyzed) = 1
        /\ Len(ModelItems(c)) = 2
        /\ Len(inbox[c].items) = 2

\* C2: in every analysis actionableCheckboxId is set if and only if
\* removalSuggestion.recommended is true, and is then "chk_" + itemId.
C2_CheckboxIffRecommended ==
    \A c \in Clients :
        Succeeded(c) =>
            \A n \in 1..Len(response[c].itemsAnalyzed) :
                LET a == response[c].itemsAnalyzed[n] IN
                /\ (a.removalSuggestion.actionableCheckboxId # None)
                      <=> a.removalSuggestion.recommended
                /\ a.removalSuggestion.recommended =>
                      a.removalSuggestion.actionableCheckboxId = chk(a.itemId)

\* C3: a request with an empty item list or with more than 50 items is answered
\* with status 400.
C3_BadListIs400 ==
    \A c \in Clients :
        (Answered(c) /\ (Len(inbox[c].items) = 0 \/ Len(inbox[c].items) > 50))
            => response[c].status = 400

\* C4: a request with 0 or more than 50 items is rejected before the prompt is
\* built, and the provider is never invoked for it; a request with 1 to 50 items
\* (1 and 50 included) passes validation.
C4_RejectedBeforeProvider ==
    \A c \in Clients :
        /\ (pc[c] # "absent" /\ (Len(inbox[c].items) = 0 \/ Len(inbox[c].items) > 50)) =>
              /\ calls[c] = 0
              /\ steps[c] = <<>>
              /\ c \notin Range(queue) /\ c \notin running
              /\ future[c] = NoFuture
              /\ pc[c] \in {"received", "done"}
              /\ Answered(c) => response[c].status # 200
        /\ (pc[c] \notin {"absent", "received"}
              /\ Len(inbox[c].items) >= 1 /\ Len(inbox[c].items) <= 50) =>
              /\ "Validated" \in Range(steps[c])
              /\ Answered(c) => (calls[c] = 1 /\ response[c] # ErrorResponse(500, "HTTPException"))

C4_Witness ==
    \E c \in Clients :
        /\ Answered(c)
        /\ Len(inbox[c].items) = 51
        /\ calls[c] = 0

\* C5: for a request item of cost c >= 0 and a retained suggestion of estimated
\* cost e, costSavings is c - e rounded to 2 decimals (at most half a hundredth
\* away) and savingsPercent is (c - e) / c * 100 rounded to 1 decimal (at most
\* half a tenth away) when c > 0 and 0 when c = 0, whatever currentCost,
\* costSavings or savingsPercent the model attached.
Abs(x) == IF x < 0 THEN 0 - x ELSE x

C5_SavingsRecomputed ==
    \A c \in Clients :
        Succeeded(c) =>
            LET analyses == response[c].itemsAnalyzed
                known == KnownEntries(c, ModelItems(c), 1)
            IN  \A n \in 1..Len(analyses) :
                    LET cost == OriginalOf(c, analyses[n].itemId).currentCost IN
                    cost >= 0 =>
                        /\ analyses[n].currentCost = cost
                        /\ Len(analyses[n].suggestions) = Len(Retained(known[n]))
                        /\ \A k \in 1..Len(analyses[n].suggestions) :
                              LET s == analyses[n].suggestions[k]
                                  e == Retained(known[n])[k].estimatedCost
                              IN  /\ s.estimatedCost = e
                                  /\ 2 * Abs(10 * s.costSavings - (cost - e)) <= 10
                                  /\ cost > 0 =>
                                        2 * Abs(s.savingsPercent * cost - (cost - e) * 1000)
                                            <= cost
                                  /\ cost = 0 => s.savingsPercent = 0

C5_Witness ==
    \E c \in Clients :
        /\ Succeeded(c)
        /\ Len(response[c].itemsAnalyzed) = 1
        /\ response[c].itemsAnalyzed[1].currentCost = 100000
        /\ Has(ModelItems(c)[1], "currentCost")
        /\ ModelItems(c)[1].currentCost # 100000
        /\ Len(response[c].itemsAnalyzed[1].suggestions) = 3
        /\ Has(ModelSuggestions(ModelItems(c)[1])[2], "costSavings")
        /\ response[c].itemsAnalyzed[1].suggestions[1].costSavings = 9401
        /\ response[c].itemsAnalyzed[1].suggestions[1].savingsPercent = 940
        /\ response[c].itemsAnalyzed[1].suggestions[2].costSavings = 5000
        /\ response[c].itemsAnalyzed[1].suggestions[2].savingsPercent = 500

\* C6: every analysis carries the itemId, name, currentCost and lastUsed of the
\* request item it belongs to.
C6_EchoesRequestItem ==
    \A c \in Clients :
        Succeeded(c) =>
            \A n \in 1..Len(response[c].itemsAnalyzed) :
                LET a == response[c].itemsAnalyzed[n]
                    o == OriginalOf(c, a.itemId)
                IN  /\ a.itemId = o.itemId
                    /\ a.name = o.name
                    /\ a.currentCost = o.currentCost
                    /\ a.lastUsed = o.lastUsed

\* C7: a request whose model answer holds, for an itemId of the request, one of
\* the first three suggestions without name, estimatedCost or rationale is
\* answered with status 422.
MalformedRetained(c) ==
    \E m \in 1..Len(ModelItems(c)) :
        /\ IsKnown(c, ModelItems(c)[m])
        /\ \E k \in 1..Len(Retained(ModelItems(c)[m])) :
              ~sugg_keys_ok(Retained(ModelItems(c)[m])[k])

C7_MalformedSuggestionIs422 ==
    \A c \in Clients :
        (Answered(c) /\ MalformedRetained(c)) => response[c].status = 422

\* C8: on the stripped text the three strategies are tried in order - the whole
\* text, the group of the first fenced match, the span from the first "{" to
\* the last "}" - the first that parses gives the result, a strategy that does
\* not parse passes on to the next, and the error is raised exactly when none
\* parses.
SpanParse(text) ==
    IF first_brace(text) # 0 /\ last_brace(text) > first_brace(text)
    THEN json_loads(BraceSpan(text, first_brace(text), last_brace(text)))
    ELSE DecodeError

FenceParse(text) ==
    IF re_search(text).found THEN json_loads(re_search(text).group)
    ELSE DecodeError

C8_FirstStrategyWins ==
    \A c \in Clients :
        (Answered(c) /\ GotText(c)) =>
            LET text == strip(future[c].text)
                r == _extract_json(future[c].text)
                whole == json_loads(text)
                fenced == FenceParse(text)
                span == SpanParse(text)
            IN  /\ whole.ok => (r.ok /\ r.val = whole.val)
                /\ (~whole.ok /\ fenced.ok) => (r.ok /\ r.val = fenced.val)
                /\ (~whole.ok /\ ~fenced.ok /\ span.ok) => (r.ok /\ r.val = span.val)
                /\ (~whole.ok /\ ~fenced.ok /\ ~span.ok) <=> ~r.ok
                /\ r.ok <=> "Extracted" \in Range(steps[c])
                /\ ~r.ok => response[c] = ErrorResponse(422, "ValueError")

\* C9: what the extraction returns is a JSON object; a text that is JSON of
\* another kind is answered as a malformed response (ValueError, 422).
C9_ExtractedIsObject ==
    \A c \in Clients :
        (Answered(c) /\ GotText(c)) =>
            /\ _extract_json(future[c].text).ok =>
                  _extract_json(future[c].text).val.type = "dict"
            /\ (json_loads(strip(future[c].text)).ok
                  /\ json_loads(strip(future[c].text)).val.type # "dict") =>
                  response[c] = ErrorResponse(422, "ValueError")

NoStrategyParses(text) ==
    /\ ~json_loads(text).ok
    /\ ~FenceParse(text).ok
    /\ ~SpanParse(text).ok

C11_BlockedOrUnrecoverableIs422 ==
    \A c \in Clients :
        (/\ Answered(c)
         /\ future[c].kind = "response"
         /\ \/ future[c].candidates = 0
            \/ future[c].parts = 0
            \/ NoStrategyParses(strip(future[c].text)))
            => /\ response[c].status = 422
               /\ ~Has(response[c], "itemsAnalyzed")

\* C12: the provider is invoked at most once for a request, and exactly once
\* for an answered request of 1 to 50 items, whatever the outcome of the call,
\* the extraction or the projection; a provider call that raises is answered
\* with status 500 after that single invocation.
C12_ProviderInvokedOnce ==
    \A c \in Clients :
        /\ calls[c] <= 1
        /\ (Answered(c) /\ Len(inbox[c].items) >= 1 /\ Len(inbox[c].items) <= 50)
              => calls[c] = 1
        /\ (Answered(c) /\ future[c].kind = "exception")
              => (calls[c] = 1 /\ response[c].status = 500)
        /\ (pc[c] = "resumable" /\ future[c].kind = "exception") => calls[c] = 1

C12_Witness ==
    \E c \in Clients :
        /\ Answered(c)
        /\ future[c].kind = "exception"
        /\ calls[c] = 1
        /\ response[c] = ErrorResponse(500, "ProviderError")

\* C13: priorityItems is the first 5 elements of the list obtained by walking
\* itemsAnalyzed in order, appending an item's id once when one of its
\* suggestions saves more than 50 and once more when its removal is
\* recommended; it has at most 5 entries, all of them analyzed ids, and an item
\* whose best saving is exactly 50 and whose removal is not recommended adds
\* nothing.
RECURSIVE PriorityWalk(_, _)
PriorityWalk(analyses, n) ==
    IF n > Len(analyses) THEN <<>>
    ELSE (IF \E k \in 1..Len(analyses[n].suggestions) :
                analyses[n].suggestions[k].costSavings > 5000
          THEN <<analyses[n].itemId>> ELSE <<>>)
         \o (IF analyses[n].removalSuggestion.recommended
             THEN <<analyses[n].itemId>> ELSE <<>>)
         \o PriorityWalk(analyses, n + 1)

IsBest(item, m) ==
    /\ \E k \in 1..Len(item.suggestions) : item.suggestions[k].costSavings = m
    /\ \A k \in 1..Len(item.suggestions) : item.suggestions[k].costSavings <= m

RECURSIVE SumBest(_, _)
SumBest(analyses, n) ==
    IF n > Len(analyses) THEN 0
    ELSE (IF analyses[n].suggestions = <<>> THEN 0
          ELSE CHOOSE m \in { analyses[n].suggestions[k].costSavings :
                                k \in 1..Len(analyses[n].suggestions) } :
                   IsBest(analyses[n], m))
         + SumBest(analyses, n + 1)

C14_SummaryFigures ==
    \A c \in Clients :
        Succeeded(c) =>
            LET analyses == response[c].itemsAnalyzed
                summary == response[c].summary
                total == SumBest(analyses, 1)
            IN  /\ summary.total_items = Len(analyses)
                /\ summary.items_with_suggestions =
                      Cardinality({ n \in 1..Len(analyses) : Len(analyses[n].suggestions) >= 1 })
                /\ summary.removal_candidates =
                      Cardinality({ n \in 1..Len(analyses) : analyses[n].neverUsedFlag })
                /\ summary.total_potential_savings = total
                /\ summary.savings_text.cents \in 0..99
                /\ summary.savings_text.whole * 100 + summary.savings_text.cents = Abs(total)
                /\ summary.savings_text.negative <=> total < 0
                /\ calls[c] = 1

C14_Witness ==
    \E c \in Clients :
        /\ Succeeded(c)
        /\ Len(response[c].itemsAnalyzed) = 2
        /\ Len(response[c].itemsAnalyzed[1].suggestions) = 3
        /\ response[c].itemsAnalyzed[2].suggestions = <<>>
        /\ response[c].summary.total_items = 2
        /\ response[c].summary.items_with_suggestions = 1
        /\ response[c].summary.removal_candidates = 1
        /\ response[c].summary.total_potential_savings = 9401
        /\ response[c].summary.savings_text = [negative |-> FALSE, whole |-> 94, cents |-> 1]

\* C15: a request holding an item with a negative currentCost is rejected
\* where it is parsed: no prompt is built for it, the provider is not invoked
\* and it is not answered with analyses.
HasNegativeCost(c) ==
    \E i \in 1..Len(inbox[c].items) : inbox[c].items[i].currentCost < 0

C15_NegativeCostRejected ==
    \A c \in Clients :
        (Answered(c) /\ HasNegativeCost(c)) =>
            /\ calls[c] = 0
            /\ "PromptBuilt" \notin Range(steps[c])
            /\ response[c].status # 200

\* C16: the steps a request has completed are always an initial part of
\* validation, prompt building, provider call, extraction, projection, summary
\* building, response assembly; an answered request has exactly one of the
\* outcomes success (all seven steps done), client error or server error; after
\* a failed step no later step is done and the response holds no analyses; and
\* the outcome of an answered request never changes.
Pipeline ==
    << "Validated", "PromptBuilt", "CompletionRequested", "Extracted", "Projected",
       "SummaryBuilt", "ResponseAssembled" >>

IsPrefix(s, t) == Len(s) <= Len(t) /\ s = SubSeq(t, 1, Len(s))

PipelineOrder ==
    \A c \in Clients :
        /\ IsPrefix(steps[c], Pipeline)
        /\ ~Answered(c) => response[c] = NoResponse
        /\ Answered(c) =>
              /\ response[c].status \in {200} \cup (400..499) \cup (500..599)
              /\ response[c].status = 200 <=> steps[c] = Pipeline
              /\ response[c].status = 200 <=> Has(response[c], "itemsAnalyzed")
              /\ validate_items(inbox[c].items) # "ok" => steps[c] = <<>>
              /\ (future[c].kind = "exception" \/ (GotText(c) /\ ~_extract_json(future[c].text).ok))
                    => (response[c].status # 200 /\ steps[c] = SubSeq(Pipeline, 1, 3))
              /\ MalformedRetained(c)
                    => (response[c].status # 200 /\ steps[c] = SubSeq(Pipeline, 1, 4))

TerminalIsFinal ==
    \A c \in Clients :
        Answered(c) => (Answered(c)' /\ response'[c] = response[c] /\ steps'[c] = steps[c])

C16_StrictOrderOneOutcome == []PipelineOrder /\ [][TerminalIsFinal]_vars

C16_Witness ==
    \E c \in Clients :
        /\ Answered(c)
        /\ MalformedRetained(c)
        /\ Len(ModelItems(c)) = 2
        /\ IsKnown(c, ModelItems(c)[1]) /\ Retained(ModelItems(c)[1]) # <<>>
        /\ \A k \in 1..Len(Retained(ModelItems(c)[1])) : sugg_keys_ok(Retained(ModelItems(c)[1])[k])
        /\ steps[c] = <<"Validated", "PromptBuilt", "CompletionRequested", "Extracted">>
        /\ ~Has(response[c], "itemsAnalyzed")

\* C17: at most 5 provider calls execute at the same time and every further
\* submitted call waits in the executor's queue; whatever waits or runs, a
\* received request can be validated (and rejected) and a request whose call
\* has completed can be answered.
InFlight(c) == pc[c] = "awaiting"

C17_AtMostFiveCallsNoStall ==
    /\ Cardinality(running) <= max_workers
    /\ \A c \in Clients :
          /\ InFlight(c) => (c \in running) # (c \in Range(queue))
          /\ c \in running \cup Range(queue) => InFlight(c)
          /\ pc[c] = "received" => ENABLED HandleRequest(c)
          /\ pc[c] = "resumable" => ENABLED Resume(c)

\* Five calls execute and a sixth waits in the queue.
C17_Witness ==
    /\ Cardinality(running) = max_workers
    /\ queue # <<>>
    /\ \A c \in Clients : InFlight(c)

\* C18: under fair scheduling, with every provider call returning or raising,
\* every received request is eventually answered for good, also when more
\* requests are in flight than the pool has workers; the call of a caller that
\* has disconnected has by then been run to completion and every worker is free.
Settled(c) ==
    /\ Answered(c)
    /\ c \notin running
    /\ c \notin Range(queue)
    /\ validate_items(inbox[c].items) = "ok" => (calls[c] = 1 /\ future[c] # NoFuture)
    /\ ~connected[c] => (calls[c] = 1 /\ future[c] # NoFuture)

C18_EveryRequestTerminates == <>[](\A c \in Clients : Settled(c))

\* More requests than workers have had their provider call, one caller has
\* disconnected, and all are answered with every worker free.
C18_Witness ==
    /\ \A c \in Clients : Settled(c) /\ calls[c] = 1
    /\ \E c \in Clients : ~connected[c] /\ future[c] # NoFuture
    /\ running = {}

\* C19: the itemIds of itemsAnalyzed, in order, are the itemIds of the model's
\* items array with the ids that are not in the request left out: the model's
\* order is kept, not the request's, and an itemId the model repeats k times
\* has k analyses.
IdsOf(entries) == [n \in 1..Len(entries) |-> entries[n].itemId]

Occurrences(ids, id) == Cardinality({ n \in 1..Len(ids) : ids[n] = id })

C19_ModelOrderAndMultiplicity ==
    \A c \in Clients :
        Succeeded(c) =>
            LET InRequest(id) == id \in RequestIds(c)
                answered == IdsOf(response[c].itemsAnalyzed)
                modelled == IdsOf(ModelItems(c))
            IN  /\ answered = SelectSeq(modelled, InRequest)
                /\ \A id \in RequestIds(c) :
                      Occurrences(answered, id) = Occurrences(modelled, id)

\* The model answers the second request item first and repeats it: there are
\* more analyses than request items, in the model's order.
C19_Witness ==
    \E c \in Clients :
        /\ Succeeded(c)
        /\ Len(inbox[c].items) = 2
        /\ inbox[c].items[1].itemId # inbox[c].items[2].itemId
        /\ Len(response[c].itemsAnalyzed) > 2
        /\ response[c].itemsAnalyzed[1].itemId = inbox[c].items[2].itemId
        /\ Occurrences(IdsOf(response[c].itemsAnalyzed), inbox[c].items[2].itemId) = 3

\* C20: in every analysis neverUsedFlag is the model's neverUsedFlag, or false
\* when the model omits it, and removalSuggestion.recommended is the model's
\* removalSuggestion.recommended when the model gives one and neverUsedFlag
\* otherwise.
ModelRemoval(entry) == Get(entry, "removalSuggestion", NoFields)

C20_FlagAndRecommendedDefaults ==
    \A c \in Clients :
        Succeeded(c) =>
            LET known == KnownEntries(c, ModelItems(c), 1) IN
            \A n \in 1..Len(response[c].itemsAnalyzed) :
                LET a == response[c].itemsAnalyzed[n]
                    e == known[n]
                IN  /\ a.neverUsedFlag =
                          (IF Has(e, "neverUsedFlag") THEN e.neverUsedFlag ELSE FALSE)
                    /\ a.removalSuggestion.recommended =
                          (IF Has(ModelRemoval(e), "recommended")
                           THEN ModelRemoval(e).recommended
                           ELSE a.neverUsedFlag)

\* The model flags the item as never used and gives a removalSuggestion
\* without "recommended": the analysis recommends the removal.
C20_Witness ==
    \E c \in Clients :
        /\ Succeeded(c)
        /\ Len(response[c].itemsAnalyzed) = 1
        /\ Len(ModelItems(c)) = 1
        /\ Has(ModelItems(c)[1], "neverUsedFlag") /\ ModelItems(c)[1].neverUsedFlag
        /\ Has(ModelItems(c)[1], "removalSuggestion")
        /\ ~Has(ModelItems(c)[1].removalSuggestion, "recommended")
        /\ response[c].itemsAnalyzed[1].removalSuggestion.recommended

\* C21: every suggestion of a response with status 200 has a confidence within
\* [0,1], the model's when the model gave one and 0.7 otherwise; a request whose
\* model answer holds, for an itemId of the request, one of the first three
\* suggestions with a confidence outside [0,1] is answered with status 422.
InRange(confidence) == confidence >= 0 /\ confidence <= 100

OutOfRangeRetained(c) ==
    \E m \in 1..Len(ModelItems(c)) :
        /\ IsKnown(c, ModelItems(c)[m])
        /\ \E k \in 1..Len(Retained(ModelItems(c)[m])) :
              /\ Has(Retained(ModelItems(c)[m])[k], "confidence")
              /\ ~InRange(Retained(ModelItems(c)[m])[k].confidence)

C21_ConfidenceInRangeOr422 ==
    \A c \in Clients :
        /\ Succeeded(c) =>
              LET known == KnownEntries(c, ModelItems(c), 1) IN
              \A n \in 1..Len(response[c].itemsAnalyzed) :
                  \A k \in 1..Len(response[c].itemsAnalyzed[n].suggestions) :
                      LET given == response[c].itemsAnalyzed[n].suggestions[k].confidence
                          sugg == Retained(known[n])[k]
                      IN  /\ InRange(given)
                          /\ given = (IF Has(sugg, "confidence") THEN sugg.confidence
                                      ELSE DefaultConfidence)
        /\ (Answered(c) /\ OutOfRangeRetained(c)) => response[c].status = 422
====
